---- MODULE Spec2Model ----
(***************************************************************************)
(* Vol-Server: the volunteer / application HTTP services.                  *)
(*                                                                         *)
(* Part I  models src/index.js: the lazily connected server whose routes   *)
(*         sit behind checkDbConnection.  A request is a task.  A step of  *)
(*         a task is one store call together with the synchronous code     *)
(*         around it: the handler from its entry through its findOne (or   *)
(*         insertOne) is the first step, its updateOne / deleteOne and the *)
(*         response the second, so that the reads and the writes of        *)
(*         concurrent requests interleave as the event loop allows.  The   *)
(*         arrival of a request touches no shared state once `client` is   *)
(*         set, so it is taken together with the first store call.         *)
(* Part II models src/api/index.js: the cookie-token server that connects  *)
(*         at load time; its handlers hold one store call each.            *)
(***************************************************************************)
EXTENDS Integers, FiniteSets, Sequences, TLC

\* ------------------------------------------------------------------ bounds
MaxReq   == 2      \* request tasks in flight at once
MaxPosts == 1      \* ObjectIds the volunteer collection hands out
MaxCount == 1      \* largest volunteersNeeded a body carries / increase reaches
MaxApps  == 2      \* ObjectIds the applications collection hands out
MaxTokens == 2     \* tokens POST /jwt signs
MaxTicks == 2      \* half days the clock advances
MaxSrvPosts == 2   \* ObjectIds the flag variant's volunteer collection hands out
MaxSrvApps == 1    \* applications the flag variant stores
MaxDrop == 1       \* how far below zero the flag variant's decrease is followed

\* ------------------------------------------------------------------ values
Reqs      == 1..MaxReq
BadId     == 0                       \* an id ObjectId.isValid rejects
PostIds   == 1..MaxPosts             \* well-formed ids
ReqIds    == {BadId} \cup PostIds
Emails    == {"alice", "bob"}
NoHeader  == "<undefined>"           \* req.headers['x-user-email'] when absent
HeaderVals == {NoHeader, ""} \cup Emails
NoToken   == "<none>"                \* no cookie / Authorization token sent
TokenVals == {NoToken, "alice"}      \* a signed token is named by its email claim
Undefined == "<undefined>"           \* a field the body does not carry
BodyCounts == 0..MaxCount
ServerDate == "new Date()"           \* a timestamp the server assigns

AppIds    == 1..MaxApps
AppReqIds == {BadId} \cup AppIds
Statuses  == {"requested", "approved", "rejected"}

NoBody == [organizerEmail |-> Undefined, title |-> Undefined, volunteersNeeded |-> 0,
           createdAt |-> Undefined, updatedAt |-> Undefined]
\* the bodies of POST /volunteer: the ones a form sends, and one that carries
\* its own timestamps and a negative count (req.body is stored unvalidated)
PostBodies ==
    [organizerEmail : Emails, title : {"t1"}, volunteersNeeded : BodyCounts,
     createdAt : {Undefined}, updatedAt : {Undefined}]
    \cup [organizerEmail : {"bob"}, title : {"t1"}, volunteersNeeded : {-1},
          createdAt : {"client"}, updatedAt : {"client"}]
PutBodies  == [organizerEmail : {Undefined}, title : {"t2"}, volunteersNeeded : BodyCounts,
               createdAt : {Undefined}, updatedAt : {Undefined}]

VARIABLES
    \* ---- src/index.js
    client,               \* `let client` is assigned
    connected,            \* state of the client.connect() promise
    collections,          \* volunteerCollection, applicationsCollection, usersCollection assigned
    volunteer,            \* the 'volunteer' collection: _id -> document
    nextId,               \* next ObjectId the volunteer collection generates
    applications,         \* the 'applications' collection: _id -> document
    nextAppId,            \* next ObjectId the applications collection generates
    task,                 \* the requests in flight and the response just sent
    \* ---- src/api/index.js
    apiConnected,         \* state of the client.connect() promise started at load
    apiVolunteer,         \* its 'volunteer' collection
    apiNextId,
    apiApplications,      \* its 'applications' collection
    apiNextAppId,
    issued,               \* the tokens POST /jwt has signed
    now,                  \* the clock, in seconds
    apiResp,              \* the request just served and its response
    nodeEnv,              \* process.env.NODE_ENV
    \* ---- src/unnamed/part_005, the variant with the isDbConnected flag
    isDbConnected,        \* `let isDbConnected`
    volunteerCollection,  \* `let volunteerCollection` is assigned
    applicationsCollection, \* `let applicationsCollection` is assigned
    startPc,              \* where startServer() stands
    listening,            \* app.listen() was called
    srvVolunteer,         \* its 'volunteer' collection
    srvNextId,            \* next ObjectId that collection generates
    srvApplications,      \* its 'applications' collection
    srvResp               \* the response just sent

dbVars  == <<client, connected, collections>>
volVars == <<volunteer, nextId>>
appVars == <<applications, nextAppId>>
apiVars == <<apiConnected, apiVolunteer, apiNextId, apiApplications, apiNextAppId,
             issued, now, apiResp, nodeEnv>>

srvVars == <<isDbConnected, volunteerCollection, applicationsCollection, startPc,
             listening, srvVolunteer, srvNextId, srvApplications, srvResp>>

vars == <<dbVars, volVars, appVars, task, apiVars, srvVars>>

\* ------------------------------------------------------------ store driver
IsValid(id) == id # BadId

FindOne(coll, id) == IF id \in DOMAIN coll THEN {coll[id]} ELSE {}

UpdateOne(coll, id, Op(_)) ==
    IF id \in DOMAIN coll THEN [coll EXCEPT ![id] = Op(@)] ELSE coll

DeleteOne(coll, id) == [i \in (DOMAIN coll) \ {id} |-> coll[i]]

InsertOne(coll, id, doc) == [i \in (DOMAIN coll) \cup {id} |-> IF i = id THEN doc ELSE coll[i]]

\* ------------------------------------------------------------------- tasks
Idle == [pc |-> "idle", route |-> "none", id |-> BadId, email |-> NoHeader,
         token |-> NoToken, param |-> Undefined, body |-> NoBody, status |-> 0,
         sent |-> {}, insertedId |-> BadId]

Free(r) == task[r].pc \in {"idle", "done"}

\* Slots only name the requests in flight: a new request takes the first free one.
Vacant(r) == Free(r) /\ \A q \in Reqs : q < r => ~Free(q)

\* A response stays in its slot for the state that follows it; the next step of
\* the server finds the slot free again.
Release(t) == IF t.pc = "done" THEN Idle ELSE t

Step(r, t) == [q \in Reqs |-> IF q = r THEN t ELSE Release(task[q])]

Reply(t, code) == [t EXCEPT !.pc = "done", !.status = code]

Await(t, call) == [t EXCEPT !.pc = call]

\* !userEmail
Missing(email) == email \in {NoHeader, ""}

\* the comparison with === in place of !==
NotOwnerInverted(post, email) == post.organizerEmail = email

\* post.organizerEmail !== userEmail
NotOwner(post, email) == post.organizerEmail # email

\* the floor test with < in place of <=
NoSlotsBelowZero(post) == post.volunteersNeeded < 0

\* volunteer.volunteersNeeded <= 0
NoSlots(post) == post.volunteersNeeded <= 0

\* ------------------------------ handlers up to their first store call
GetStart(t) ==
    IF ~IsValid(t.id) THEN Reply(t, 400)
    ELSE Await(t, "find")

PostStart(t) == Await(t, "insert")

\* the header test placed ahead of the id test
PutStartHeaderFirst(t) ==
    IF Missing(t.email) THEN Reply(t, 401)
    ELSE IF ~IsValid(t.id) THEN Reply(t, 400)
    ELSE Await(t, "find")

PutStart(t) ==
    IF ~IsValid(t.id) THEN Reply(t, 400)
    ELSE IF Missing(t.email) THEN Reply(t, 401)
    ELSE Await(t, "find")

DeleteStart(t) ==
    IF ~IsValid(t.id) THEN Reply(t, 400)
    ELSE IF Missing(t.email) THEN Reply(t, 401)
    ELSE Await(t, "find")

DecreaseStart(t) ==
    IF ~IsValid(t.id) THEN Reply(t, 400)
    ELSE Await(t, "find")

IncreaseStart(t) ==
    IF ~IsValid(t.id) THEN Reply(t, 400)
    ELSE Await(t, "find")

HandlerStart(t) ==
    CASE t.route = "GET"      -> GetStart(t)
      [] t.route = "POST"     -> PostStart(t)
      [] t.route = "PUT"      -> PutStart(t)
      [] t.route = "DELETE"   -> DeleteStart(t)
      [] t.route = "DECREASE" -> DecreaseStart(t)
      [] t.route = "INCREASE" -> IncreaseStart(t)

\* ------------------------------------------------------ connection manager
Request(route, id, email, token, body) ==
    [Idle EXCEPT !.route = route, !.id = id, !.email = email,
                 !.token = token, !.body = body]

\* the requests a client can send to each volunteer route
Requests(route) ==
    CASE route \in {"GET", "DECREASE", "INCREASE"} ->
            { Request(route, id, NoHeader, NoToken, NoBody) : id \in ReqIds }
      [] route = "POST" ->
            { Request(route, BadId, e, k, b) :
                  e \in {NoHeader, "alice"}, k \in TokenVals, b \in PostBodies }
      [] route = "PUT" ->
            { Request(route, id, e, NoToken, b) :
                  id \in ReqIds, e \in HeaderVals, b \in PutBodies }
      [] route = "DELETE" ->
            { Request(route, id, e, NoToken, NoBody) :
                  id \in ReqIds, e \in HeaderVals }

Routes == {"GET", "POST", "PUT", "DELETE", "DECREASE", "INCREASE"}

\* connectToDatabase whose catch resets `client`, so that a request after a
\* failed attempt connects again
FirstRequestRetry(r) ==
    /\ Vacant(r)
    /\ ~client \/ connected = "failed"
    /\ client' = TRUE
    /\ connected' = "pending"
    /\ \E route \in Routes : \E t \in Requests(route) :
           task' = Step(r, Await(t, "connect"))
    /\ UNCHANGED <<collections, volunteer, nextId, appVars, apiVars, srvVars>>

\* connectToDatabase with `client` unset: the first request creates the client
\* and awaits client.connect()
FirstRequest(r) ==
    /\ Vacant(r)
    /\ ~client
    /\ client' = TRUE
    /\ connected' = "pending"
    /\ \E route \in Routes : \E t \in Requests(route) :
           task' = Step(r, Await(t, "connect"))
    /\ UNCHANGED <<collections, volunteer, nextId, appVars, apiVars, srvVars>>

\* client.connect() resolves: the handles are assigned, next() enters the handler
ConnectOk(r) ==
    /\ task[r].pc = "connect"
    /\ connected' = "ok"
    /\ collections' = TRUE
    /\ task' = Step(r, Await(task[r], "run"))
    /\ UNCHANGED <<client, volunteer, nextId, appVars, apiVars, srvVars>>

\* client.connect() rejecting in a checkDbConnection without try/catch: the
\* rejection is unhandled and nothing answers the request
ConnectFailUncaught(r) ==
    /\ task[r].pc = "connect"
    /\ connected' = "failed"
    /\ task' = Step(r, Await(task[r], "unhandled"))
    /\ UNCHANGED <<client, collections, volunteer, nextId, appVars, apiVars, srvVars>>

\* client.connect() rejects: checkDbConnection's catch answers 503
ConnectFail(r) ==
    /\ task[r].pc = "connect"
    /\ connected' = "failed"
    /\ task' = Step(r, Reply(task[r], 503))
    /\ UNCHANGED <<client, collections, volunteer, nextId, appVars, apiVars, srvVars>>

\* the requests whose handler for `route` can start in slot r: the one that
\* awaited the connection, or a new one that finds `client` set and so passes
\* checkDbConnection at once (whether or not the handles are assigned yet)
Incoming(r, route) ==
    IF task[r].pc = "run"
    THEN IF task[r].route = route THEN {task[r]} ELSE {}
    ELSE IF Vacant(r) /\ client THEN Requests(route) ELSE {}

\* the first store call of a handler throws: a TypeError when the collection
\* handle is still undefined, or the driver rejecting; the route's catch answers 500
FirstCallThrows(r) ==
    /\ \E route \in Routes : \E t \in Incoming(r, route) :
           /\ HandlerStart(t).pc # "done"
           /\ task' = Step(r, Reply(t, 500))
    /\ UNCHANGED <<client, connected, collections, volunteer, nextId, appVars, apiVars, srvVars>>

\* the second store call of a handler rejects: the route's catch answers 500
SecondCallThrows(r) ==
    /\ task[r].pc \in {"update", "delete"}
    /\ task' = Step(r, Reply(task[r], 500))
    /\ UNCHANGED <<client, connected, collections, volunteer, nextId, appVars, apiVars, srvVars>>

\* --------------------------------------------------------- POST /volunteer
\* { ...req.body } alone, without the server's timestamps after the spread
PostDocAsSent(body) == body

\* { ...req.body, createdAt: new Date(), updatedAt: new Date() }
PostDoc(body) == [body EXCEPT !.createdAt = ServerDate, !.updatedAt = ServerDate]

Post(r) ==
    /\ nextId <= MaxPosts
    /\ collections
    /\ \E t \in Incoming(r, "POST") :
           /\ volunteer' = InsertOne(volunteer, nextId, PostDoc(t.body))
           /\ nextId' = nextId + 1
           /\ task' = Step(r, [Reply(t, 201) EXCEPT !.insertedId = nextId])
    /\ UNCHANGED <<client, connected, collections, appVars, apiVars, srvVars>>

\* ------------------------------------------------------ GET /volunteer/:id
GetAfterFind(t, found) ==
    IF found = {} THEN Reply(t, 404)
    ELSE [Reply(t, 200) EXCEPT !.sent = found]

GetHandle(t, coll) ==
    LET s == GetStart(t)
    IN IF s.pc = "done" THEN s ELSE GetAfterFind(s, FindOne(coll, t.id))

Get(r) ==
    /\ \E t \in Incoming(r, "GET") :
           /\ (GetStart(t).pc # "done") => collections
           /\ task' = Step(r, GetHandle(t, volunteer))
    /\ UNCHANGED <<client, connected, collections, volunteer, nextId, appVars, apiVars, srvVars>>

\* ------------------------------------------------------ PUT /volunteer/:id
\* the ownership comparison made on post?.organizerEmail ahead of the null test
PutAfterFindOwnerFirst(t, found) ==
    IF \A post \in found : NotOwner(post, t.email) THEN Reply(t, 403)
    ELSE IF found = {} THEN Reply(t, 404)
    ELSE Await(t, "update")

PutAfterFind(t, found) ==
    IF found = {} THEN Reply(t, 404)
    ELSE IF \E post \in found : NotOwner(post, t.email) THEN Reply(t, 403)
    ELSE Await(t, "update")

PutHandle(t, coll) ==
    LET s == PutStart(t)
    IN IF s.pc = "done" THEN s ELSE PutAfterFind(s, FindOne(coll, t.id))

Put(r) ==
    /\ \E t \in Incoming(r, "PUT") :
           /\ (PutStart(t).pc # "done") => collections
           /\ task' = Step(r, PutHandle(t, volunteer))
    /\ UNCHANGED <<client, connected, collections, volunteer, nextId, appVars, apiVars, srvVars>>

\* a $set that takes organizerEmail from the body as well
PutSetOwnerToo(post, body) ==
    [post EXCEPT !.title = body.title, !.volunteersNeeded = body.volunteersNeeded,
                 !.updatedAt = ServerDate, !.organizerEmail = body.organizerEmail]

\* the $set of PUT
PutSet(post, body) ==
    [post EXCEPT !.title = body.title, !.volunteersNeeded = body.volunteersNeeded,
                 !.updatedAt = ServerDate]

PutUpdate(r) ==
    /\ task[r].pc = "update" /\ task[r].route = "PUT"
    /\ LET Op(post) == PutSet(post, task[r].body)
       IN volunteer' = UpdateOne(volunteer, task[r].id, Op)
    /\ task' = Step(r, Reply(task[r], 200))
    /\ UNCHANGED <<client, connected, collections, nextId, appVars, apiVars, srvVars>>

\* --------------------------------------------------- DELETE /volunteer/:id
\* the handler without its ownership comparison
DeleteAfterFindNoOwner(t, found) ==
    IF found = {} THEN Reply(t, 404)
    ELSE Await(t, "delete")

\* the ownership comparison accepting the email of a token as well
DeleteAfterFindTokenToo(t, found) ==
    IF found = {} THEN Reply(t, 404)
    ELSE IF \E post \in found : NotOwner(post, t.email) /\ NotOwner(post, t.token)
         THEN Reply(t, 403)
    ELSE Await(t, "delete")

DeleteAfterFind(t, found) ==
    IF found = {} THEN Reply(t, 404)
    ELSE IF \E post \in found : NotOwner(post, t.email) THEN Reply(t, 403)
    ELSE Await(t, "delete")

DeleteHandle(t, coll) ==
    LET s == DeleteStart(t)
    IN IF s.pc = "done" THEN s ELSE DeleteAfterFind(s, FindOne(coll, t.id))

Delete(r) ==
    /\ \E t \in Incoming(r, "DELETE") :
           /\ (DeleteStart(t).pc # "done") => collections
           /\ task' = Step(r, DeleteHandle(t, volunteer))
    /\ UNCHANGED <<client, connected, collections, volunteer, nextId, appVars, apiVars, srvVars>>

DeleteDelete(r) ==
    /\ task[r].pc = "delete" /\ task[r].route = "DELETE"
    /\ volunteer' = DeleteOne(volunteer, task[r].id)
    /\ task' = Step(r, Reply(task[r], 200))
    /\ UNCHANGED <<client, connected, collections, nextId, appVars, apiVars, srvVars>>

\* ------------------------------------------- PATCH /volunteer/:id/decrease
DecreaseAfterFind(t, found) ==
    IF found = {} THEN Reply(t, 404)
    ELSE IF \E post \in found : NoSlots(post) THEN Reply(t, 400)
    ELSE Await(t, "update")

DecreaseHandle(t, coll) ==
    LET s == DecreaseStart(t)
    IN IF s.pc = "done" THEN s ELSE DecreaseAfterFind(s, FindOne(coll, t.id))

Decrease(r) ==
    /\ \E t \in Incoming(r, "DECREASE") :
           /\ (DecreaseStart(t).pc # "done") => collections
           /\ task' = Step(r, DecreaseHandle(t, volunteer))
    /\ UNCHANGED <<client, connected, collections, volunteer, nextId, appVars, apiVars, srvVars>>

\* $inc: { volunteersNeeded: n }
\* an $inc whose amount is applied twice
IncTwice(post, n) == [post EXCEPT !.volunteersNeeded = @ + n + n]

Inc(post, n) == [post EXCEPT !.volunteersNeeded = @ + n]

DecreaseUpdate(r) ==
    /\ task[r].pc = "update" /\ task[r].route = "DECREASE"
    /\ LET Op(post) == Inc(post, -1)
       IN volunteer' = UpdateOne(volunteer, task[r].id, Op)
    /\ task' = Step(r, Reply(task[r], 200))
    /\ UNCHANGED <<client, connected, collections, nextId, appVars, apiVars, srvVars>>

\* ------------------------------------------- PATCH /volunteer/:id/increase
IncreaseAfterFind(t, found) ==
    IF found = {} THEN Reply(t, 404) ELSE Await(t, "update")

IncreaseHandle(t, coll) ==
    LET s == IncreaseStart(t)
    IN IF s.pc = "done" THEN s ELSE IncreaseAfterFind(s, FindOne(coll, t.id))

\* (the model stops increasing at MaxCount)
Increase(r) ==
    /\ \E t \in Incoming(r, "INCREASE") :
           /\ \A post \in FindOne(volunteer, t.id) : post.volunteersNeeded < MaxCount
           /\ (IncreaseStart(t).pc # "done") => collections
           /\ task' = Step(r, IncreaseHandle(t, volunteer))
    /\ UNCHANGED <<client, connected, collections, volunteer, nextId, appVars, apiVars, srvVars>>

IncreaseUpdate(r) ==
    /\ task[r].pc = "update" /\ task[r].route = "INCREASE"
    /\ \A post \in FindOne(volunteer, task[r].id) : post.volunteersNeeded < MaxCount
    /\ LET Op(post) == Inc(post, 1)
       IN volunteer' = UpdateOne(volunteer, task[r].id, Op)
    /\ task' = Step(r, Reply(task[r], 200))
    /\ UNCHANGED <<client, connected, collections, nextId, appVars, apiVars, srvVars>>

\* ======================================= application routes of src/index.js
AppBodies == [userEmail : Emails, status : {Undefined, "requested"}]

StatusBodies == [userEmail : {Undefined}, status : {"approved", "bogus"}]

AppRequest(route, id, token, param, body) ==
    [Idle EXCEPT !.route = route, !.id = id, !.token = token,
                 !.param = param, !.body = body]

\* the requests a client can send to each application route
AppRequests(route) ==
    CASE route = "GET_APPS" ->
            { AppRequest(route, BadId, k, x, NoBody) :
                  k \in TokenVals, x \in {Undefined, "bob"} }
      [] route = "GET_USER_APPS" ->
            { AppRequest(route, BadId, k, x, NoBody) : k \in TokenVals, x \in Emails }
      [] route = "POST_APP" ->
            { AppRequest(route, BadId, NoToken, Undefined, b) : b \in AppBodies }
      [] route = "DELETE_APP" ->
            { AppRequest(route, id, k, Undefined, NoBody) :
                  id \in AppReqIds, k \in TokenVals }
      [] route = "PATCH_STATUS" ->
            { AppRequest(route, id, NoToken, Undefined, b) :
                  id \in AppReqIds, b \in StatusBodies }

AppRoutes == {"GET_APPS", "GET_USER_APPS", "POST_APP", "DELETE_APP", "PATCH_STATUS"}

\* find(query).toArray()
Find(coll, Match(_)) == { coll[i] : i \in { j \in DOMAIN coll : Match(coll[j]) } }

\* handlers up to their first store call
DeleteAppStart(t) ==
    IF ~IsValid(t.id) THEN Reply(t, 400) ELSE Await(t, "find")

\* the handler without its test of the status value
PatchStatusStartAnyStatus(t) ==
    IF ~IsValid(t.id) THEN Reply(t, 400)
    ELSE Await(t, "update")

PatchStatusStart(t) ==
    IF ~IsValid(t.id) THEN Reply(t, 400)
    ELSE IF t.body.status \notin Statuses THEN Reply(t, 400)
    ELSE Await(t, "update")

AppHandlerStart(t) ==
    CASE t.route = "DELETE_APP"   -> DeleteAppStart(t)
      [] t.route = "PATCH_STATUS" -> PatchStatusStart(t)
      [] OTHER                    -> Await(t, "find")

FirstAppRequest(r) ==
    /\ Vacant(r)
    /\ ~client
    /\ client' = TRUE
    /\ connected' = "pending"
    /\ \E route \in AppRoutes : \E t \in AppRequests(route) :
           task' = Step(r, Await(t, "connect"))
    /\ UNCHANGED <<collections, volVars, appVars, apiVars, srvVars>>

AppIncoming(r, route) ==
    IF task[r].pc = "run"
    THEN IF task[r].route = route THEN {task[r]} ELSE {}
    ELSE IF Vacant(r) /\ client THEN AppRequests(route) ELSE {}

AppFirstCallThrows(r) ==
    /\ \E route \in AppRoutes : \E t \in AppIncoming(r, route) :
           /\ AppHandlerStart(t).pc # "done"
           /\ task' = Step(r, Reply(t, 500))
    /\ UNCHANGED <<dbVars, volVars, appVars, apiVars, srvVars>>

\* GET /applications
GetAppsQuery(t, doc) == TRUE

GetApplications(r) ==
    /\ collections
    /\ \E t \in AppIncoming(r, "GET_APPS") :
           LET Match(doc) == GetAppsQuery(t, doc)
           IN task' = Step(r, [Reply(t, 200) EXCEPT !.sent = Find(applications, Match)])
    /\ UNCHANGED <<dbVars, volVars, appVars, apiVars, srvVars>>

\* GET /applications/user/:email
GetUserAppsQuery(t, doc) == doc.userEmail = t.param

GetUserApplications(r) ==
    /\ collections
    /\ \E t \in AppIncoming(r, "GET_USER_APPS") :
           LET Match(doc) == GetUserAppsQuery(t, doc)
           IN task' = Step(r, [Reply(t, 200) EXCEPT !.sent = Find(applications, Match)])
    /\ UNCHANGED <<dbVars, volVars, appVars, apiVars, srvVars>>

\* POST /applications: { ...req.body, createdAt, updatedAt }, _id from the store
AppDoc(id, body) == [_id |-> id, userEmail |-> body.userEmail, status |-> body.status]

PostApplication(r) ==
    /\ collections
    /\ nextAppId <= MaxApps
    /\ \E t \in AppIncoming(r, "POST_APP") :
           /\ applications' = InsertOne(applications, nextAppId, AppDoc(nextAppId, t.body))
           /\ nextAppId' = nextAppId + 1
           /\ task' = Step(r, [Reply(t, 201) EXCEPT !.insertedId = nextAppId])
    /\ UNCHANGED <<dbVars, volVars, apiVars, srvVars>>

\* DELETE /applications/:id
\* the handler refusing a caller that presents no token
DeleteAppAfterFindToken(t, found) ==
    IF found = {} THEN Reply(t, 404)
    ELSE IF t.token = NoToken THEN Reply(t, 401)
    ELSE Await(t, "delete")

DeleteAppAfterFind(t, found) ==
    IF found = {} THEN Reply(t, 404) ELSE Await(t, "delete")

DeleteAppHandle(t, coll) ==
    LET s == DeleteAppStart(t)
    IN IF s.pc = "done" THEN s ELSE DeleteAppAfterFind(s, FindOne(coll, t.id))

DeleteApplication(r) ==
    /\ \E t \in AppIncoming(r, "DELETE_APP") :
           /\ (DeleteAppStart(t).pc # "done") => collections
           /\ task' = Step(r, DeleteAppHandle(t, applications))
    /\ UNCHANGED <<dbVars, volVars, appVars, apiVars, srvVars>>

\* result.deletedCount === 0 -> 404
DeleteAppReply(t, deletedCount) ==
    IF deletedCount = 0 THEN Reply(t, 404) ELSE Reply(t, 200)

DeleteApplicationDelete(r) ==
    /\ task[r].pc = "delete" /\ task[r].route = "DELETE_APP"
    /\ applications' = DeleteOne(applications, task[r].id)
    /\ task' = Step(r, DeleteAppReply(task[r],
                        IF task[r].id \in DOMAIN applications THEN 1 ELSE 0))
    /\ UNCHANGED <<dbVars, volVars, nextAppId, apiVars, srvVars>>

\* PATCH /applications/:id/status
SetStatus(doc, status) == [doc EXCEPT !.status = status]

PatchStatusReply(t, matchedCount) ==
    IF matchedCount = 0 THEN Reply(t, 404) ELSE Reply(t, 200)

PatchStatus(r) ==
    /\ \E t \in AppIncoming(r, "PATCH_STATUS") :
           LET s == PatchStatusStart(t)
               Op(doc) == SetStatus(doc, t.body.status)
           IN IF s.pc = "done"
              THEN /\ task' = Step(r, s)
                   /\ UNCHANGED applications
              ELSE /\ collections
                   /\ applications' = UpdateOne(applications, t.id, Op)
                   /\ task' = Step(r, PatchStatusReply(s,
                                   IF t.id \in DOMAIN applications THEN 1 ELSE 0))
    /\ UNCHANGED <<dbVars, volVars, nextAppId, apiVars, srvVars>>

\* ============================================================ src/api/index.js
\* The server connects at load time and registers no readiness gate.  A handler
\* holds one store call, so a request is served in one step; apiResp keeps the
\* request just served together with its response.

OneDay   == 86400                    \* expiresIn: '1d', in seconds
HalfDay  == OneDay \div 2            \* the clock advances by half a day
ApiEnd   == MaxTicks * HalfDay

\* the values of NODE_ENV: production, another value, unset
NodeEnvs == {"production", "development", Undefined}

\* json: the members of the JSON body sent; setCookie: the cookies res.cookie set
ApiIdle == [route |-> "none", id |-> BadId, email |-> NoHeader, cookie |-> {},
            query |-> Undefined, body |-> NoBody, bodyEmail |-> Undefined,
            status |-> 0, sent |-> {}, json |-> {}, setCookie |-> {},
            user |-> Undefined, ran |-> FALSE, read |-> FALSE,
            insertedId |-> BadId]

\* res.json(result), res.status(201).json(result)
ApiReply(q, code) == [q EXCEPT !.status = code]

\* res.status(code).json({ error: ... })
ApiError(q, code) == [q EXCEPT !.status = code, !.json = {"error"}]

\* res.status(code).json({ message: ... })
ApiMessage(q, code) == [q EXCEPT !.status = code, !.json = {"message"}]

\* the token signed with expiresIn: '1h'
JwtSignOneHour(email, t) == [email |-> email, exp |-> t + 3600, signed |-> TRUE]

\* jwt.sign({ email }, JWT_SECRET, { expiresIn: '1d' })
JwtSign(email, t) == [email |-> email, exp |-> t + OneDay, signed |-> TRUE]

\* jwt.verify called with ignoreExpiration
JwtVerifyIgnoreExpiration(k, t) == k.signed

\* jwt.verify: the signature is ours and the token has not expired
JwtVerify(k, t) == k.signed /\ t < k.exp

\* a JSON value that is a query operator document when it reaches find()
NeNull == "{ $ne: null }"

\* the values of the email member of a POST /jwt body
JwtEmails == Emails \cup {Undefined, "", NeNull}

\* the driver's match of a stored field against the value of a query member:
\* an operator document is applied, anything else is compared for equality
\* ($ne: null matches every document that has the field)
Matches(query, value) ==
    IF query = NeNull THEN value # Undefined ELSE value = query

\* a token cookie holding the empty string
EmptyCookie == [email |-> Undefined, exp |-> 0, signed |-> FALSE]

\* the cookies a client can send: none, an empty one, a token POST /jwt
\* signed, or a token with a signature that is not ours
Cookies ==
    {{}, {EmptyCookie}}
        \cup { {k} : k \in issued }
        \cup { {[email |-> e, exp |-> ApiEnd + OneDay, signed |-> FALSE]} : e \in Emails }

\* !token
NoCookie(c) == c = {} \/ c = {EmptyCookie}

\* verifyToken; status 0 stands for next()
VerifyToken(q, t) ==
    IF NoCookie(q.cookie) THEN ApiMessage(q, 401)
    ELSE IF \E k \in q.cookie : ~JwtVerify(k, t) THEN ApiMessage(q, 403)
    ELSE [q EXCEPT !.user = (CHOOSE k \in q.cookie : TRUE).email]

\* ================== src/unnamed/part_005, the variant with isDbConnected
SrvIds == 1..MaxSrvPosts
SrvReqIds == {BadId} \cup SrvIds
SrvNodeEnvs == {"serverless", "production"}
SrvBodies == [volunteersNeeded : BodyCounts]
SrvAppBodies == [userEmail : Emails]

SrvIdle == [route |-> "none", id |-> BadId, status |-> 0, calls |-> 0]

\* res.status(code) after `calls` store calls of the handler
SrvReply(route, id, code, calls) ==
    [route |-> route, id |-> id, status |-> code, calls |-> calls]

SrvInit ==
    /\ isDbConnected = FALSE
    /\ volunteerCollection = FALSE
    /\ applicationsCollection = FALSE
    /\ startPc = "connect"
    /\ listening = FALSE
    /\ srvVolunteer = <<>>
    /\ srvNextId = 1
    /\ srvApplications = <<>>
    /\ srvResp = SrvIdle

\* await client.connect() resolves with the flag raised at once, ahead of the
\* ping and of the two assignments
StartConnectOkFlagEarly ==
    /\ startPc = "connect"
    /\ startPc' = "ping"
    /\ isDbConnected' = TRUE
    /\ UNCHANGED <<volunteerCollection, applicationsCollection, listening,
                   srvVolunteer, srvNextId, srvApplications, srvResp>>
    /\ UNCHANGED <<dbVars, volVars, appVars, task, apiVars>>

\* await client.connect() resolves
StartConnectOk ==
    /\ startPc = "connect"
    /\ startPc' = "ping"
    /\ UNCHANGED <<isDbConnected, volunteerCollection, applicationsCollection, listening,
                   srvVolunteer, srvNextId, srvApplications, srvResp>>
    /\ UNCHANGED <<dbVars, volVars, appVars, task, apiVars>>

\* client.connect() or the ping rejects: catch (err) { isDbConnected = false }
StartFail ==
    /\ startPc \in {"connect", "ping"}
    /\ startPc' = "failed"
    /\ isDbConnected' = FALSE
    /\ UNCHANGED <<volunteerCollection, applicationsCollection, listening,
                   srvVolunteer, srvNextId, srvApplications, srvResp>>
    /\ UNCHANGED <<dbVars, volVars, appVars, task, apiVars>>

\* the ping resolves: both handles and the flag are assigned in one turn, and
\* outside serverless app.listen() is called
StartPingOk ==
    /\ startPc = "ping"
    /\ startPc' = "done"
    /\ volunteerCollection' = TRUE
    /\ applicationsCollection' = TRUE
    /\ isDbConnected' = TRUE
    /\ listening' = (nodeEnv # "serverless")
    /\ UNCHANGED <<srvVolunteer, srvNextId, srvApplications, srvResp>>
    /\ UNCHANGED <<dbVars, volVars, appVars, task, apiVars>>

\* the ping resolves and app.listen() throws in the same turn (a PORT out of
\* range): the catch lowers the flag again, the handles stay assigned
StartListenThrows ==
    /\ startPc = "ping"
    /\ nodeEnv # "serverless"
    /\ startPc' = "failed"
    /\ volunteerCollection' = TRUE
    /\ applicationsCollection' = TRUE
    /\ isDbConnected' = FALSE
    /\ UNCHANGED <<listening, srvVolunteer, srvNextId, srvApplications, srvResp>>
    /\ UNCHANGED <<dbVars, volVars, appVars, task, apiVars>>

\* requests reach the app through the exported handler or the listening port
Serving == nodeEnv = "serverless" \/ listening

\* checkDbConnection: if (!isDbConnected) return res.status(503); next()
CheckDbConnection(route, id, handled) ==
    IF ~isDbConnected THEN SrvReply(route, id, 503, 0) ELSE handled

SrvGetAll ==
    /\ Serving
    /\ srvResp' = CheckDbConnection("GET_ALL", BadId, SrvReply("GET_ALL", BadId, 200, 1))
    /\ UNCHANGED <<isDbConnected, volunteerCollection, applicationsCollection, startPc,
                   listening, srvVolunteer, srvNextId, srvApplications>>
    /\ UNCHANGED <<dbVars, volVars, appVars, task, apiVars>>

SrvGet ==
    /\ Serving
    /\ \E id \in SrvReqIds :
           srvResp' = CheckDbConnection("GET", id,
                          IF ~IsValid(id) THEN SrvReply("GET", id, 400, 0)
                          ELSE IF FindOne(srvVolunteer, id) = {} THEN SrvReply("GET", id, 404, 1)
                          ELSE SrvReply("GET", id, 200, 1))
    /\ UNCHANGED <<isDbConnected, volunteerCollection, applicationsCollection, startPc,
                   listening, srvVolunteer, srvNextId, srvApplications>>
    /\ UNCHANGED <<dbVars, volVars, appVars, task, apiVars>>

SrvPost ==
    /\ Serving
    /\ isDbConnected => srvNextId <= MaxSrvPosts
    /\ \E body \in SrvBodies :
           /\ srvResp' = CheckDbConnection("POST", BadId, SrvReply("POST", BadId, 201, 1))
           /\ srvVolunteer' = IF isDbConnected THEN InsertOne(srvVolunteer, srvNextId, body)
                              ELSE srvVolunteer
           /\ srvNextId' = IF isDbConnected THEN srvNextId + 1 ELSE srvNextId
    /\ UNCHANGED <<isDbConnected, volunteerCollection, applicationsCollection, startPc,
                   listening, srvApplications>>
    /\ UNCHANGED <<dbVars, volVars, appVars, task, apiVars>>

SrvDecrease ==
    /\ Serving
    /\ \E id \in SrvReqIds :
           /\ (isDbConnected /\ id \in DOMAIN srvVolunteer)
                  => srvVolunteer[id].volunteersNeeded > -MaxDrop
           /\ srvResp' = CheckDbConnection("DECREASE", id,
                              IF ~IsValid(id) THEN SrvReply("DECREASE", id, 400, 0)
                              ELSE IF id \notin DOMAIN srvVolunteer
                                   THEN SrvReply("DECREASE", id, 404, 1)
                              ELSE SrvReply("DECREASE", id, 200, 1))
           /\ LET Op(post) == Inc(post, -1)
              IN srvVolunteer' = IF isDbConnected /\ IsValid(id)
                                 THEN UpdateOne(srvVolunteer, id, Op)
                                 ELSE srvVolunteer
    /\ UNCHANGED <<isDbConnected, volunteerCollection, applicationsCollection, startPc,
                   listening, srvNextId, srvApplications>>
    /\ UNCHANGED <<dbVars, volVars, appVars, task, apiVars>>

SrvDelete ==
    /\ Serving
    /\ \E id \in SrvReqIds :
           /\ srvResp' = CheckDbConnection("DELETE", id,
                              IF ~IsValid(id) THEN SrvReply("DELETE", id, 400, 0)
                              ELSE IF id \notin DOMAIN srvVolunteer
                                   THEN SrvReply("DELETE", id, 404, 1)
                              ELSE SrvReply("DELETE", id, 200, 1))
           /\ srvVolunteer' = IF isDbConnected /\ IsValid(id)
                              THEN DeleteOne(srvVolunteer, id)
                              ELSE srvVolunteer
    /\ UNCHANGED <<isDbConnected, volunteerCollection, applicationsCollection, startPc,
                   listening, srvNextId, srvApplications>>
    /\ UNCHANGED <<dbVars, volVars, appVars, task, apiVars>>

SrvPostApplication ==
    /\ Serving
    /\ isDbConnected => Cardinality(DOMAIN srvApplications) < MaxSrvApps
    /\ \E body \in SrvAppBodies :
           /\ srvResp' = CheckDbConnection("POST_APP", BadId, SrvReply("POST_APP", BadId, 201, 1))
           /\ srvApplications' =
                  IF isDbConnected
                  THEN InsertOne(srvApplications, Cardinality(DOMAIN srvApplications) + 1, body)
                  ELSE srvApplications
    /\ UNCHANGED <<isDbConnected, volunteerCollection, applicationsCollection, startPc,
                   listening, srvVolunteer, srvNextId>>
    /\ UNCHANGED <<dbVars, volVars, appVars, task, apiVars>>

SrvGetApplications ==
    /\ Serving
    /\ srvResp' = CheckDbConnection("GET_APPS", BadId, SrvReply("GET_APPS", BadId, 200, 1))
    /\ UNCHANGED <<isDbConnected, volunteerCollection, applicationsCollection, startPc,
                   listening, srvVolunteer, srvNextId, srvApplications>>
    /\ UNCHANGED <<dbVars, volVars, appVars, task, apiVars>>

\* the store call of a handler rejects: its catch answers 500
SrvStoreThrows ==
    /\ Serving
    /\ isDbConnected
    /\ \E route \in {"GET_ALL", "GET", "POST", "DECREASE", "DELETE", "POST_APP", "GET_APPS"} :
       \E id \in SrvReqIds :
           /\ (route \in {"GET", "DECREASE", "DELETE"}) = IsValid(id)
           /\ srvResp' = SrvReply(route, id, 500, 1)
    /\ UNCHANGED <<isDbConnected, volunteerCollection, applicationsCollection, startPc,
                   listening, srvVolunteer, srvNextId, srvApplications>>
    /\ UNCHANGED <<dbVars, volVars, appVars, task, apiVars>>

\* a guarded route runs
SrvRequest ==
    \/ SrvGetAll
    \/ SrvGet
    \/ SrvPost
    \/ SrvDecrease
    \/ SrvDelete
    \/ SrvPostApplication
    \/ SrvGetApplications

ApiInit ==
    /\ apiConnected = "pending"
    /\ apiVolunteer = <<>>
    /\ apiNextId = 1
    /\ apiApplications = <<>>
    /\ apiNextAppId = 1
    /\ issued = {}
    /\ now = 0
    /\ apiResp = ApiIdle

\* client.connect().then(...): the two handles are assigned
ApiConnectOk ==
    /\ apiConnected = "pending"
    /\ apiConnected' = "ok"
    /\ apiResp' = ApiIdle
    /\ UNCHANGED <<apiVolunteer, apiNextId, apiApplications, apiNextAppId, issued, now>>
    /\ UNCHANGED <<dbVars, volVars, appVars, task, nodeEnv, srvVars>>

\* client.connect().catch(...): logged, the handles stay undefined
ApiConnectFail ==
    /\ apiConnected = "pending"
    /\ apiConnected' = "failed"
    /\ apiResp' = ApiIdle
    /\ UNCHANGED <<apiVolunteer, apiNextId, apiApplications, apiNextAppId, issued, now>>
    /\ UNCHANGED <<dbVars, volVars, appVars, task, nodeEnv, srvVars>>

Tick ==
    /\ now < ApiEnd
    /\ now' = now + HalfDay
    /\ apiResp' = ApiIdle
    /\ UNCHANGED <<apiConnected, apiVolunteer, apiNextId, apiApplications, apiNextAppId, issued>>
    /\ UNCHANGED <<dbVars, volVars, appVars, task, nodeEnv, srvVars>>

\* !email
NoEmail(e) == e \in {Undefined, ""}

\* maxAge: 24 * 60 * 60 * 1000, in milliseconds
MaxAge == 24 * 60 * 60 * 1000

\* res.cookie('token', token, { httpOnly, secure, sameSite, maxAge, domain })
TokenCookie(k, env) ==
    [name |-> "token", value |-> k, httpOnly |-> TRUE,
     secure |-> (env = "production"),
     sameSite |-> IF env = "production" THEN "None" ELSE "Lax",
     maxAge |-> MaxAge]

\* POST /jwt
PostJwtHandle(q, t, env) ==
    IF NoEmail(q.bodyEmail) THEN ApiMessage(q, 400)
    ELSE [ApiReply(q, 200) EXCEPT
              !.setCookie = {TokenCookie(JwtSign(q.bodyEmail, t), env)},
              !.json = {"success", "message"}]

PostJwt ==
    /\ \E e \in JwtEmails :
           LET q == [ApiIdle EXCEPT !.route = "JWT", !.bodyEmail = e, !.ran = TRUE]
               a == PostJwtHandle(q, now, nodeEnv)
               ks == { c.value : c \in a.setCookie }
           IN /\ ks \subseteq issued \/ Cardinality(issued) < MaxTokens
              /\ issued' = issued \cup ks
              /\ apiResp' = a
    /\ UNCHANGED <<apiConnected, apiVolunteer, apiNextId, apiApplications, apiNextAppId, now>>
    /\ UNCHANGED <<dbVars, volVars, appVars, task, nodeEnv, srvVars>>

\* POST /applications: insertOne(req.body)
ApiAppBodies == [userEmail : Emails \cup {Undefined}, status : {Undefined}]

ApiPostApplication ==
    /\ \E b \in ApiAppBodies :
           LET q == [ApiIdle EXCEPT !.route = "POST_APP", !.body = b, !.ran = TRUE]
           IN IF apiConnected # "ok"
              THEN /\ apiResp' = ApiError(q, 500)
                   /\ UNCHANGED <<apiApplications, apiNextAppId>>
              ELSE /\ apiNextAppId <= MaxApps
                   /\ apiApplications' = InsertOne(apiApplications, apiNextAppId,
                                                   AppDoc(apiNextAppId, b))
                   /\ apiNextAppId' = apiNextAppId + 1
                   /\ apiResp' = [ApiReply(q, 201) EXCEPT !.insertedId = apiNextAppId]
    /\ UNCHANGED <<apiConnected, apiVolunteer, apiNextId, issued, now>>
    /\ UNCHANGED <<dbVars, volVars, appVars, task, nodeEnv, srvVars>>

\* GET /applications, behind verifyToken: find({ userEmail: req.user.email })
ApiGetAppsQuery(q, doc) == Matches(q.user, doc.userEmail)

ApiGetAppsHandle(q, ready, coll) ==
    LET Match(doc) == ApiGetAppsQuery(q, doc)
    IN IF ~ready THEN [ApiError(q, 500) EXCEPT !.ran = TRUE]
       ELSE [ApiReply(q, 200) EXCEPT !.ran = TRUE, !.read = TRUE,
                                     !.sent = Find(coll, Match)]

\* verifyToken, then the handler when it called next()
ApiGetAppsRoute(q, t, ready, coll) ==
    LET v == VerifyToken(q, t)
    IN IF v.status # 0 THEN v ELSE ApiGetAppsHandle(v, ready, coll)

ApiGetApplications ==
    /\ \E c \in Cookies, x \in {Undefined, "bob"}, h \in {NoHeader, "bob"} :
           LET q == [ApiIdle EXCEPT !.route = "GET_APPS", !.cookie = c,
                                    !.query = x, !.email = h]
           IN apiResp' = ApiGetAppsRoute(q, now, apiConnected = "ok", apiApplications)
    /\ UNCHANGED <<apiConnected, apiVolunteer, apiNextId, apiApplications, apiNextAppId,
                   issued, now>>
    /\ UNCHANGED <<dbVars, volVars, appVars, task, nodeEnv, srvVars>>

\* POST /volunteer: insertOne(req.body)
ApiPostVolunteer ==
    /\ \E b \in PostBodies :
           LET q == [ApiIdle EXCEPT !.route = "POST", !.body = b, !.ran = TRUE]
           IN IF apiConnected # "ok"
              THEN /\ apiResp' = ApiError(q, 500)
                   /\ UNCHANGED <<apiVolunteer, apiNextId>>
              ELSE /\ apiNextId <= MaxPosts
                   /\ apiVolunteer' = InsertOne(apiVolunteer, apiNextId, b)
                   /\ apiNextId' = apiNextId + 1
                   /\ apiResp' = [ApiReply(q, 201) EXCEPT !.insertedId = apiNextId]
    /\ UNCHANGED <<apiConnected, apiApplications, apiNextAppId, issued, now>>
    /\ UNCHANGED <<dbVars, volVars, appVars, task, nodeEnv, srvVars>>

\* PATCH /volunteer/:id/decrease: updateOne $inc -1, the result is the answer
ApiDecreaseHandle(q, ready) ==
    IF ~IsValid(q.id) THEN ApiError(q, 400)
    ELSE IF ~ready THEN ApiError(q, 500)
    ELSE ApiReply(q, 200)

\* (the model stops decreasing at -MaxCount)
ApiDecrease ==
    /\ \E id \in ReqIds :
           LET q == [ApiIdle EXCEPT !.route = "DECREASE", !.id = id, !.ran = TRUE]
               a == ApiDecreaseHandle(q, apiConnected = "ok")
               Op(post) == Inc(post, -1)
           IN /\ \A post \in FindOne(apiVolunteer, id) : post.volunteersNeeded > -MaxCount
              /\ apiResp' = a
              /\ apiVolunteer' = IF a.status = 200 THEN UpdateOne(apiVolunteer, id, Op)
                                 ELSE apiVolunteer
    /\ UNCHANGED <<apiConnected, apiNextId, apiApplications, apiNextAppId, issued, now>>
    /\ UNCHANGED <<dbVars, volVars, appVars, task, nodeEnv, srvVars>>

\* DELETE /volunteer/:id: deleteOne, deletedCount decides between 200 and 404
ApiDeleteHandle(q, ready, coll) ==
    IF ~IsValid(q.id) THEN ApiError(q, 400)
    ELSE IF ~ready THEN ApiError(q, 500)
    ELSE IF q.id \in DOMAIN coll THEN [ApiReply(q, 200) EXCEPT !.json = {"message"}]
    ELSE ApiError(q, 404)

ApiDelete ==
    /\ \E id \in ReqIds, h \in HeaderVals, c \in Cookies :
           LET q == [ApiIdle EXCEPT !.route = "DELETE", !.id = id, !.email = h,
                                    !.cookie = c, !.ran = TRUE]
               a == ApiDeleteHandle(q, apiConnected = "ok", apiVolunteer)
           IN /\ apiResp' = a
              /\ apiVolunteer' = IF a.status = 200 THEN DeleteOne(apiVolunteer, id)
                                 ELSE apiVolunteer
    /\ UNCHANGED <<apiConnected, apiNextId, apiApplications, apiNextAppId, issued, now>>
    /\ UNCHANGED <<dbVars, volVars, appVars, task, nodeEnv, srvVars>>

\* ---------------------------------------------------------- specification
\* src/index.js after load (NODE_ENV decides there only whether to listen)
Init ==
    /\ nodeEnv = Undefined
    /\ client = FALSE
    /\ connected = "none"
    /\ collections = FALSE
    /\ volunteer = <<>>
    /\ nextId = 1
    /\ applications = <<>>
    /\ nextAppId = 1
    /\ task = [r \in Reqs |-> Idle]
    /\ ApiInit
    /\ SrvInit

\* src/index.js, the volunteer routes
Next ==
    \E r \in Reqs :
        \/ FirstRequest(r)
        \/ ConnectOk(r)
        \/ ConnectFail(r)
        \/ FirstCallThrows(r)
        \/ SecondCallThrows(r)
        \/ Post(r)
        \/ Get(r)
        \/ Put(r)
        \/ PutUpdate(r)
        \/ Delete(r)
        \/ DeleteDelete(r)
        \/ Decrease(r)
        \/ DecreaseUpdate(r)
        \/ Increase(r)
        \/ IncreaseUpdate(r)

Spec == Init /\ [][Next]_vars

\* a request that has arrived and is not yet answered
InFlight(r) == task[r].pc \notin {"idle", "done"}

\* the continuation of request r: the promise it awaits (client.connect() or a
\* store call) settles and the code after the await runs
Continue(r) ==
    /\ InFlight(r)
    /\ \/ ConnectOk(r)
       \/ ConnectFail(r)
       \/ FirstCallThrows(r)
       \/ SecondCallThrows(r)
       \/ Post(r)
       \/ Get(r)
       \/ Put(r)
       \/ PutUpdate(r)
       \/ Delete(r)
       \/ DeleteDelete(r)
       \/ Decrease(r)
       \/ DecreaseUpdate(r)
       \/ Increase(r)
       \/ IncreaseUpdate(r)

\* every awaited promise settles, and the event loop then runs its continuation
SpecLive == Init /\ [][Next]_vars /\ \A r \in Reqs : WF_vars(Continue(r))

\* src/index.js started on a database that already holds two posts: the one
\* requests address, and a second one
OtherId == MaxPosts + 1

OtherPost == PostDoc([organizerEmail |-> "bob", title |-> "t1", volunteersNeeded |-> 1,
                      createdAt |-> Undefined, updatedAt |-> Undefined])

InitPosts ==
    /\ nodeEnv = Undefined
    /\ client = FALSE
    /\ connected = "none"
    /\ collections = FALSE
    /\ \E body \in PostBodies :
           volunteer = InsertOne(InsertOne(<<>>, 1, PostDoc(body)), OtherId, OtherPost)
    /\ nextId = OtherId + 1
    /\ applications = <<>>
    /\ nextAppId = 1
    /\ task = [r \in Reqs |-> Idle]
    /\ ApiInit
    /\ SrvInit

\* the volunteer routes that read, change or remove stored posts
NextPosts ==
    \E r \in Reqs :
        \/ FirstRequest(r)
        \/ ConnectOk(r)
        \/ ConnectFail(r)
        \/ FirstCallThrows(r)
        \/ SecondCallThrows(r)
        \/ Get(r)
        \/ Put(r)
        \/ PutUpdate(r)
        \/ Delete(r)
        \/ DeleteDelete(r)
        \/ Decrease(r)
        \/ DecreaseUpdate(r)
        \/ Increase(r)
        \/ IncreaseUpdate(r)

SpecPosts == InitPosts /\ [][NextPosts]_vars

\* src/index.js, the application routes
NextApps ==
    \E r \in Reqs :
        \/ FirstAppRequest(r)
        \/ ConnectOk(r)
        \/ ConnectFail(r)
        \/ AppFirstCallThrows(r)
        \/ SecondCallThrows(r)
        \/ GetApplications(r)
        \/ GetUserApplications(r)
        \/ PostApplication(r)
        \/ DeleteApplication(r)
        \/ DeleteApplicationDelete(r)
        \/ PatchStatus(r)

SpecApps == Init /\ [][NextApps]_vars

\* src/api/index.js after load, under each value of NODE_ENV
InitApi ==
    /\ nodeEnv \in NodeEnvs
    /\ client = FALSE
    /\ connected = "none"
    /\ collections = FALSE
    /\ volunteer = <<>>
    /\ nextId = 1
    /\ applications = <<>>
    /\ nextAppId = 1
    /\ task = [r \in Reqs |-> Idle]
    /\ ApiInit
    /\ SrvInit

\* src/api/index.js, the token and application routes
NextApi ==
    \/ ApiConnectOk
    \/ ApiConnectFail
    \/ Tick
    \/ PostJwt
    \/ ApiPostApplication
    \/ ApiGetApplications

SpecApi == InitApi /\ [][NextApi]_vars

\* src/api/index.js, the volunteer routes
NextApiVol ==
    \/ ApiConnectOk
    \/ ApiConnectFail
    \/ PostJwt
    \/ ApiPostVolunteer
    \/ ApiDecrease
    \/ ApiDelete

SpecApiVol == InitApi /\ [][NextApiVol]_vars

\* ------------- the specification of the variant with isDbConnected
InitSrv ==
    /\ nodeEnv \in SrvNodeEnvs
    /\ client = FALSE
    /\ connected = "none"
    /\ collections = FALSE
    /\ volunteer = <<>>
    /\ nextId = 1
    /\ applications = <<>>
    /\ nextAppId = 1
    /\ task = [r \in Reqs |-> Idle]
    /\ ApiInit
    /\ SrvInit

NextSrv ==
    \/ StartConnectOk
    \/ StartFail
    \/ StartPingOk
    \/ StartListenThrows
    \/ SrvGetAll
    \/ SrvGet
    \/ SrvPost
    \/ SrvDecrease
    \/ SrvDelete
    \/ SrvPostApplication
    \/ SrvGetApplications
    \/ SrvStoreThrows

SpecSrv == InitSrv /\ [][NextSrv]_vars

\* ======================================================= claims, src/index.js

\* C1 (as claimed): a decrease's write never takes a stored volunteersNeeded
\* that is non-negative below zero, whatever the interleaving of the reads
\* (findOne) and writes ($inc -1) of concurrent decrease requests.
C1_DecreaseNeverBelowZero ==
    [][\A r \in Reqs : DecreaseUpdate(r) =>
          \A i \in DOMAIN volunteer :
              (volunteer[i].volunteersNeeded >= 0 /\ i \in DOMAIN volunteer')
                  => volunteer'[i].volunteersNeeded >= 0]_vars

\* C2: whenever decrease's findOne returns a post whose stored
\* volunteersNeeded is 0, the request is answered 400 and the store is left as
\* it was; as the store is unchanged, every repetition meets the same state and
\* gets the same answer.
C2_DecreaseAtZeroRejected ==
    [][\A r \in Reqs :
          (/\ task'[r].route = "DECREASE"
           /\ task'[r].id \in DOMAIN volunteer
           /\ volunteer[task'[r].id].volunteersNeeded = 0
           /\ Decrease(r))
          => (/\ task'[r].pc = "done"
              /\ task'[r].status = 400
              /\ volunteer' = volunteer)]_vars

C2_Witness ==
    \E r \in Reqs :
        /\ task[r].pc = "done" /\ task[r].route = "DECREASE" /\ task[r].status = 400
        /\ task[r].id \in DOMAIN volunteer
        /\ volunteer[task[r].id].volunteersNeeded = 0

\* the step in which the findOne of PUT or DELETE /volunteer/:id returns
OwnerGate(r) == Put(r) \/ Delete(r)

\* C3 (as claimed): PUT or DELETE on an existing post with an x-user-email
\* header different from its organizerEmail is answered 403 and changes nothing.
C3_OtherHeaderForbidden ==
    [][\A r \in Reqs :
          (/\ task'[r].route \in {"PUT", "DELETE"}
           /\ task'[r].id \in DOMAIN volunteer
           /\ task'[r].email # NoHeader
           /\ task'[r].email # volunteer[task'[r].id].organizerEmail
           /\ OwnerGate(r))
          => (/\ task'[r].pc = "done"
              /\ task'[r].status = 403
              /\ volunteer' = volunteer)]_vars

\* C3 (amended): PUT or DELETE on an existing post with a non-empty
\* x-user-email header different from its organizerEmail is answered 403 and
\* changes nothing; an empty header value is answered 401 like a missing one.
C3_NonEmptyOtherHeaderForbidden ==
    [][\A r \in Reqs :
          (/\ task'[r].route \in {"PUT", "DELETE"}
           /\ task'[r].id \in DOMAIN volunteer
           /\ task'[r].email \notin {NoHeader, ""}
           /\ task'[r].email # volunteer[task'[r].id].organizerEmail
           /\ OwnerGate(r))
          => (/\ task'[r].pc = "done"
              /\ task'[r].status = 403
              /\ volunteer' = volunteer)]_vars

C3_Witness ==
    \E r \in Reqs :
        /\ task[r].pc = "done" /\ task[r].route \in {"PUT", "DELETE"}
        /\ task[r].status = 403
        /\ task[r].id \in DOMAIN volunteer
        /\ task[r].email \in Emails
        /\ task[r].email # volunteer[task[r].id].organizerEmail

\* C4: PUT or DELETE with a well-formed id and a non-empty x-user-email never
\* answers 403 and never changes the store when no stored post has that id, and
\* answers 404 whenever its findOne returns (null).
C4_MissingPostNotFound ==
    [][\A r \in Reqs :
          (/\ task'[r].pc = "done" /\ task[r].pc # "done"
           /\ task'[r].route \in {"PUT", "DELETE"}
           /\ IsValid(task'[r].id)
           /\ task'[r].email \notin {NoHeader, ""}
           /\ task'[r].id \notin DOMAIN volunteer)
          => (/\ task'[r].status # 403
              /\ volunteer' = volunteer
              /\ OwnerGate(r) => task'[r].status = 404)]_vars

C4_Witness ==
    \E r \in Reqs :
        /\ task[r].pc = "done" /\ task[r].route \in {"PUT", "DELETE"}
        /\ task[r].status = 404
        /\ task[r].email \in Emails
        /\ task[r].id \notin DOMAIN volunteer

\* C5: a stored post disappears only in the deleteOne of a DELETE whose
\* x-user-email equals the post's organizerEmail, and its title (standing for
\* title, description, category, location, deadline, thumbnail) changes only in
\* the updateOne of a PUT whose x-user-email equals the post's organizerEmail.
C5_OnlyOwnerRemovesOrEdits ==
    [][\A i \in DOMAIN volunteer :
          /\ i \notin DOMAIN volunteer' =>
                \E r \in Reqs : /\ DeleteDelete(r)
                                /\ task[r].id = i
                                /\ task[r].email = volunteer[i].organizerEmail
          /\ (i \in DOMAIN volunteer' /\ volunteer'[i].title # volunteer[i].title) =>
                \E r \in Reqs : /\ PutUpdate(r)
                                /\ task[r].id = i
                                /\ task[r].email = volunteer[i].organizerEmail]_vars

C5_Witness ==
    \E r \in Reqs :
        /\ task[r].pc = "done" /\ task[r].route = "DELETE" /\ task[r].status = 200
        /\ IsValid(task[r].id)
        /\ task[r].id \notin DOMAIN volunteer
        /\ task[r].id < nextId

\* C7 (as claimed): POST /volunteer stores a record only for a request that
\* carries an identity, an x-user-email header or a signed token.
C7_CreateNeedsIdentity ==
    [][\A r \in Reqs :
          (Post(r) /\ volunteer' # volunteer)
              => (~Missing(task'[r].email) \/ task'[r].token # NoToken)]_vars

\* C9 (as claimed): GET /applications and GET /applications/user/:email send
\* an application only to a caller whose token's email claim is the
\* application's userEmail.
C9_OwnApplicationsOnly ==
    \A r \in Reqs :
        (/\ task[r].pc = "done"
         /\ task[r].route \in {"GET_APPS", "GET_USER_APPS"})
            => \A doc \in task[r].sent : doc.userEmail = task[r].token

\* ==================================================== claims, src/api/index.js

\* the identities an api request presents: its x-user-email header and the
\* email claim of a token cookie that verifies
Presented(q) ==
    ({q.email} \ {NoHeader, ""}) \cup { k.email : k \in { c \in q.cookie : JwtVerify(c, now) } }

\* C6 (as claimed): DELETE /volunteer/:id on a stored post answers 401 to a
\* caller that presents no identity and 403 to one that presents another
\* identity than the post's organizerEmail, the post staying stored, and the
\* post leaves the store only for a caller presenting its organizerEmail.
C6_ApiDeleteOwnerOnly ==
    [][(/\ apiResp'.route = "DELETE"
        /\ apiResp'.id \in DOMAIN apiVolunteer
        /\ ApiDelete)
       => LET owner == apiVolunteer[apiResp'.id].organizerEmail
              ids   == Presented(apiResp')
          IN /\ ids = {} => (apiResp'.status = 401 /\ apiVolunteer' = apiVolunteer)
             /\ (ids # {} /\ owner \notin ids)
                    => (apiResp'.status = 403 /\ apiVolunteer' = apiVolunteer)
             /\ apiVolunteer' # apiVolunteer => owner \in ids]_vars

\* C8 (as claimed): GET /applications with a token that verifies answers with
\* exactly the stored applications whose userEmail equals the token's email
\* claim, whatever the query string and the other headers.
C8_ExactlyOwnApplications ==
    (/\ apiResp.route = "GET_APPS"
     /\ \E k \in apiResp.cookie : JwtVerify(k, now)
     /\ apiConnected = "ok")
        => /\ apiResp.status = 200
           /\ \A k \in apiResp.cookie :
                  apiResp.sent = { apiApplications[i] : i \in
                        { j \in DOMAIN apiApplications :
                              apiApplications[j].userEmail = k.email } }

\* C10: on the protected route a request without a token cookie is answered
\* 401, one whose token carries a foreign signature or is past its expiry is
\* answered 403, in both cases without the handler running or the store being
\* read; the handler runs only for a token that verifies, and then req.user's
\* email is the token's email claim.
C10_VerifyTokenGate ==
    apiResp.route = "GET_APPS" =>
        /\ apiResp.cookie = {} => apiResp.status = 401
        /\ \A k \in apiResp.cookie \ {EmptyCookie} :
               /\ (~k.signed \/ now >= k.exp) => apiResp.status = 403
               /\ apiResp.ran => (k.signed /\ now < k.exp /\ apiResp.user = k.email)
        /\ apiResp.status \in {401, 403} => (~apiResp.ran /\ ~apiResp.read)
        /\ apiResp.ran => apiResp.cookie \notin {{}, {EmptyCookie}}
        /\ apiResp.read => apiResp.ran

\* an expired token was refused and a fresh one reached the handler
C10_Witness ==
    /\ apiResp.route = "GET_APPS"
    /\ apiResp.status = 403
    /\ \E k \in apiResp.cookie : k.signed /\ now >= k.exp
    /\ \E k \in issued : now < k.exp

\* C11: POST /jwt with a non-empty email answers with success and sets one
\* cookie, named token, holding a signed token whose email claim is that email
\* and whose expiry is one day after the clock at issuance, the cookie's maxAge
\* being the same span in milliseconds; with no email (absent or empty) it
\* answers 400 and sets no cookie.
C11_JwtIssuesOneDayToken ==
    apiResp.route = "JWT" =>
        IF apiResp.bodyEmail \in {Undefined, ""}
        THEN apiResp.status = 400 /\ apiResp.setCookie = {}
        ELSE /\ apiResp.status = 200
             /\ "success" \in apiResp.json
             /\ Cardinality(apiResp.setCookie) = 1
             /\ \A c \in apiResp.setCookie :
                    /\ c.name = "token"
                    /\ c.value.signed
                    /\ c.value.email = apiResp.bodyEmail
                    /\ c.value.exp = now + 24 * 60 * 60
                    /\ c.maxAge = (c.value.exp - now) * 1000

\* a token issued after the clock has advanced
C11_Witness ==
    /\ apiResp.route = "JWT" /\ apiResp.status = 200
    /\ now > 0
    /\ \E c \in apiResp.setCookie : c.value.email = "alice" /\ c.value.exp = now + OneDay

\* C12 (as claimed): every cookie POST /jwt sets is httpOnly and has sameSite
\* strict, or sameSite None together with secure, under every value of NODE_ENV.
C12_CookieFlags ==
    \A c \in apiResp.setCookie :
        /\ c.httpOnly
        /\ c.sameSite = "strict" \/ (c.sameSite = "None" /\ c.secure)

\* C20 (as claimed): every response of src/api/index.js with status 400 or
\* above has a JSON body with an error member.
C20_ErrorBodiesHaveError ==
    apiResp.status >= 400 => "error" \in apiResp.json

\* ========================================== claims, src/index.js (continued)

\* C13: client.connect() is started only while `client` is unset and no
\* connection was attempted, so at most once per process and never again after
\* a failure or a success; the collection handles are assigned only when that
\* one attempt succeeds and stay assigned; `client` stays set.
C13_ConnectAtMostOnce ==
    [][/\ (connected' = "pending" /\ connected # "pending")
              => (connected = "none" /\ ~client)
       /\ connected \in {"ok", "failed"} => connected' = connected
       /\ (collections' /\ ~collections) => (connected = "pending" /\ connected' = "ok")
       /\ collections => collections'
       /\ client => client']_vars

\* after a failed attempt a later request was served without a new attempt
C13_Witness ==
    /\ connected = "failed"
    /\ \E r \in Reqs : task[r].pc = "done" /\ task[r].status # 503

\* C14 (as claimed): whenever a handler behind checkDbConnection starts (its
\* request leaves the gate and is answered or reaches a store call), the
\* connection has completed successfully and the collection handles are
\* assigned.
C14_HandlerStartsReady ==
    [][\A r \in Reqs :
          (/\ task[r].pc \in {"idle", "done", "run"}
           /\ task'[r].pc \notin {"idle", "connect", "run"})
              => (connected = "ok" /\ collections)]_vars

\* C15 (as claimed): once client.connect() has failed every response is 503.
C15_FailedAlwaysUnavailable ==
    connected = "failed" =>
        \A r \in Reqs : task[r].pc = "done" => task[r].status = 503

\* C16 (as claimed): a GET /volunteer/:id with the insertedId of the POST
\* /volunteer answered in the step before returns a record that equals the
\* payload on every field the payload carries.
C16_RoundTripEveryField ==
    [][\A r, g \in Reqs :
          (/\ task[r].pc = "done" /\ task[r].route = "POST" /\ task[r].status = 201
           /\ task'[g].route = "GET"
           /\ task'[g].id = task[r].insertedId
           /\ Get(g))
          => /\ task'[g].status = 200
             /\ \A doc \in task'[g].sent :
                    /\ doc.organizerEmail = task[r].body.organizerEmail
                    /\ doc.title = task[r].body.title
                    /\ doc.volunteersNeeded = task[r].body.volunteersNeeded
                    /\ task[r].body.createdAt # Undefined
                           => doc.createdAt = task[r].body.createdAt
                    /\ task[r].body.updatedAt # Undefined
                           => doc.updatedAt = task[r].body.updatedAt]_vars

\* C16 (amended): such a GET returns a record that equals the payload on every
\* field other than createdAt and updatedAt, and whose createdAt and updatedAt
\* are the server's timestamps, also when the payload carries its own.
C16_RoundTripClientFields ==
    [][\A r, g \in Reqs :
          (/\ task[r].pc = "done" /\ task[r].route = "POST" /\ task[r].status = 201
           /\ task'[g].route = "GET"
           /\ task'[g].id = task[r].insertedId
           /\ Get(g))
          => /\ task'[g].status = 200
             /\ task'[g].sent # {}
             /\ \A doc \in task'[g].sent :
                    /\ doc.organizerEmail = task[r].body.organizerEmail
                    /\ doc.title = task[r].body.title
                    /\ doc.volunteersNeeded = task[r].body.volunteersNeeded
                    /\ doc.createdAt = ServerDate
                    /\ doc.updatedAt = ServerDate]_vars

\* the post created from the payload that carries its own timestamps was read back
C16_Witness ==
    \E g \in Reqs :
        /\ task[g].pc = "done" /\ task[g].route = "GET" /\ task[g].status = 200
        /\ \E doc \in task[g].sent :
               /\ doc.volunteersNeeded = -1
               /\ doc.title = "t1"
               /\ doc.createdAt = ServerDate

\* C17 (as claimed): the volunteersNeeded of every stored post is a
\* non-negative integer.
C17_CountNonNegative ==
    \A i \in DOMAIN volunteer : volunteer[i].volunteersNeeded >= 0

\* C18 (as claimed): every stored application has a status among requested,
\* approved, rejected (one created without a status being stored as requested).
C18_StatusInEnum ==
    \A i \in DOMAIN applications : applications[i].status \in Statuses

\* C19 (as claimed): in src/api/index.js a decrease on a stored post whose
\* volunteersNeeded is 0 is answered 400 and leaves the store as it was.
C19_ApiDecreaseAtZeroRejected ==
    [][(/\ apiResp'.route = "DECREASE"
        /\ apiResp'.id \in DOMAIN apiVolunteer
        /\ apiVolunteer[apiResp'.id].volunteersNeeded = 0
        /\ ApiDecrease)
       => (apiResp'.status = 400 /\ apiVolunteer' = apiVolunteer)]_vars

\* C21: every request that has arrived is eventually answered, whether its
\* awaits return or throw (while the handles are undefined, after a failed
\* connection, after another request's 500): no request stays unanswered, and
\* requests arriving later are answered as well.
C21_EveryRequestAnswered ==
    \A r \in Reqs : InFlight(r) ~> (task[r].pc = "done")

\* a request was answered 500 after its second store call threw
C21_Witness ==
    \E r \in Reqs :
        /\ task[r].pc = "done" /\ task[r].status = 500
        /\ task[r].route \in {"PUT", "DELETE", "DECREASE", "INCREASE"}
        /\ connected = "ok"

\* C22: DELETE /applications/:id goes on to its deleteOne whenever its findOne
\* returns the application, whatever token the caller presents or omits, and
\* its deleteOne, finding the application still stored, answers 200, removes
\* that application and nothing else, and changes no volunteer post.
C22_AnyoneDeletesApplication ==
    [][\A r \in Reqs :
          /\ (/\ task'[r].route = "DELETE_APP"
              /\ task'[r].id \in DOMAIN applications
              /\ DeleteApplication(r))
                 => (task'[r].pc = "delete" /\ applications' = applications)
          /\ (/\ task[r].pc = "delete" /\ task[r].route = "DELETE_APP"
              /\ task[r].id \in DOMAIN applications
              /\ DeleteApplicationDelete(r))
                 => /\ task'[r].status = 200
                    /\ DOMAIN applications' = DOMAIN applications \ {task[r].id}
                    /\ \A i \in DOMAIN applications' : applications'[i] = applications[i]
                    /\ volunteer' = volunteer]_vars

\* a caller without a token deleted one application while another stayed stored
C22_Witness ==
    \E r \in Reqs :
        /\ task[r].pc = "done" /\ task[r].route = "DELETE_APP" /\ task[r].status = 200
        /\ task[r].token = NoToken
        /\ task[r].id \notin DOMAIN applications
        /\ applications # <<>>

\* C30: PATCH /applications/:id/status with a well-formed id and a status
\* outside the three values answers 400 and changes nothing, whether or not the
\* id is stored; with a valid status and a well-formed id that is not stored it
\* answers 404 and changes nothing; with a valid status and a stored id the
\* application's status becomes that status and no other application changes.
C30_PatchStatusOutcomes ==
    [][\A r \in Reqs :
          (/\ task'[r].route = "PATCH_STATUS"
           /\ IsValid(task'[r].id)
           /\ PatchStatus(r))
          => LET id == task'[r].id
                 st == task'[r].body.status
             IN /\ st \notin {"requested", "approved", "rejected"}
                      => (task'[r].status = 400 /\ applications' = applications)
                /\ (st \in {"requested", "approved", "rejected"} /\ id \notin DOMAIN applications)
                      => (task'[r].status = 404 /\ applications' = applications)
                /\ (st \in {"requested", "approved", "rejected"} /\ id \in DOMAIN applications)
                      => /\ task'[r].status = 200
                         /\ DOMAIN applications' = DOMAIN applications
                         /\ applications'[id] = [applications[id] EXCEPT !.status = st]
                         /\ \A i \in DOMAIN applications \ {id} :
                                applications'[i] = applications[i]]_vars

\* a status was set on one of two stored applications
C30_Witness ==
    \E r \in Reqs :
        /\ task[r].pc = "done" /\ task[r].route = "PATCH_STATUS" /\ task[r].status = 200
        /\ task[r].id \in DOMAIN applications
        /\ applications[task[r].id].status = "approved"
        /\ \E i \in DOMAIN applications : applications[i].status # "approved"

\* C23: the step in which PUT or DELETE /volunteer/:id decides answers 400 for
\* a malformed id; otherwise 401 for a missing (or empty) x-user-email, whether
\* or not the post is stored; otherwise 404 when no post has the id; otherwise
\* 403 when the header differs from organizerEmail; otherwise it goes on to its
\* write; and the deciding step itself writes nothing.
C23_GateOrder ==
    [][\A r \in Reqs :
          (/\ task'[r].route \in {"PUT", "DELETE"}
           /\ task[r].pc \in {"idle", "done", "run"}
           /\ task'[r].pc \in {"done", "update", "delete"}
           /\ task'[r].status # 500
           /\ OwnerGate(r))
          => LET t == task'[r]
             IN /\ volunteer' = volunteer
                /\ IF t.id = BadId THEN t.pc = "done" /\ t.status = 400
                   ELSE IF t.email \in {NoHeader, ""} THEN t.pc = "done" /\ t.status = 401
                   ELSE IF t.id \notin DOMAIN volunteer THEN t.pc = "done" /\ t.status = 404
                   ELSE IF volunteer[t.id].organizerEmail # t.email
                        THEN t.pc = "done" /\ t.status = 403
                   ELSE t.pc = (IF t.route = "PUT" THEN "update" ELSE "delete")]_vars

\* a request without identity was answered 401 for a stored post, and one with
\* a malformed id and no identity would be answered 400
C23_Witness ==
    \E r \in Reqs :
        /\ task[r].pc = "done" /\ task[r].route \in {"PUT", "DELETE"}
        /\ task[r].status = 401
        /\ task[r].id \in DOMAIN volunteer

\* what the deciding step of a request leaves: an answer or the pending write
Outcome(t) == <<t.pc, t.status>>

\* C24: against every reachable store, two PUT or two DELETE requests that
\* differ only in their token get the same outcome, and a request whose
\* x-user-email is the stored post's organizerEmail and that carries no token
\* is let through to its write.
C24_OutcomeIgnoresToken ==
    /\ \A id \in ReqIds, e \in HeaderVals, k \in TokenVals :
          /\ \A b \in PutBodies :
                Outcome(PutHandle(Request("PUT", id, e, k, b), volunteer))
                    = Outcome(PutHandle(Request("PUT", id, e, NoToken, b), volunteer))
          /\ Outcome(DeleteHandle(Request("DELETE", id, e, k, NoBody), volunteer))
                = Outcome(DeleteHandle(Request("DELETE", id, e, NoToken, NoBody), volunteer))
    /\ \A id \in DOMAIN volunteer :
          /\ \A b \in PutBodies :
                PutHandle(Request("PUT", id, volunteer[id].organizerEmail, NoToken, b),
                          volunteer).pc = "update"
          /\ DeleteHandle(Request("DELETE", id, volunteer[id].organizerEmail, NoToken, NoBody),
                          volunteer).pc = "delete"

\* a DELETE carrying the owner's email and no token removed the post
C24_Witness ==
    \E r \in Reqs :
        /\ task[r].pc = "done" /\ task[r].route = "DELETE" /\ task[r].status = 200
        /\ task[r].token = NoToken
        /\ task[r].email \in Emails
        /\ IsValid(task[r].id)
        /\ task[r].id \notin DOMAIN volunteer

\* C25: in the variant with the flag, isDbConnected is true only when both
\* collection handles are assigned; a guarded route that runs while the flag is
\* false answers 503 after no store call and leaves both collections as they
\* were; and once startServer has failed the flag is false and stays false.
C25_FlagGuardsStore ==
    /\ [](isDbConnected => (volunteerCollection /\ applicationsCollection))
    /\ [](startPc = "failed" => ~isDbConnected)
    /\ [][/\ (~isDbConnected /\ SrvRequest)
             => (/\ srvResp'.status = 503
                 /\ srvResp'.calls = 0
                 /\ UNCHANGED <<srvVolunteer, srvNextId, srvApplications>>)
          /\ (startPc = "failed") => (startPc' = "failed" /\ ~isDbConnected')]_vars

\* a guarded route answered 503 after the connection attempt failed
C25_Witness ==
    /\ startPc = "failed"
    /\ ~isDbConnected
    /\ srvResp.status = 503
    /\ srvResp.route = "POST"

\* C26 (as claimed): a PUT /volunteer/:id answers with its success message
\* only when its updateOne met a stored post, also when a DELETE of that post
\* ran between the PUT's ownership check and its write.
C26_PutSuccessWrote ==
    [][\A r \in Reqs :
          (/\ task[r].pc = "update" /\ task[r].route = "PUT"
           /\ task'[r].pc = "done" /\ task'[r].status = 200
           /\ PutUpdate(r))
          => task[r].id \in DOMAIN volunteer]_vars

\* C27 (as claimed): of the DELETE /volunteer/:id requests of the owner that
\* run concurrently on one post, only the one whose deleteOne removes the post
\* answers with the success message; one whose deleteOne finds the post gone
\* answers 404.
C27_OneDeleteSucceeds ==
    [][\A r \in Reqs :
          (/\ task[r].pc = "delete" /\ task[r].route = "DELETE"
           /\ task[r].id \notin DOMAIN volunteer
           /\ DeleteDelete(r))
          => task'[r].status = 404]_vars

\* C28: an increase or decrease answers with success exactly in the step of
\* its updateOne, that step moves the addressed stored volunteersNeeded by
\* exactly +1 or -1 from the value stored at that moment, and no other step
\* than an updateOne of increase, decrease or PUT changes the volunteersNeeded
\* of a post that stays stored: the stored value is the sum of the successes.
C28_CountsAddUp ==
    [][/\ \A r \in Reqs :
             /\ (/\ task[r].pc = "update" /\ task[r].route = "DECREASE"
                 /\ task[r].id \in DOMAIN volunteer
                 /\ DecreaseUpdate(r))
                => (/\ task'[r].pc = "done" /\ task'[r].status = 200
                    /\ volunteer' = [volunteer EXCEPT ![task[r].id].volunteersNeeded = @ - 1])
             /\ (/\ task[r].pc = "update" /\ task[r].route = "INCREASE"
                 /\ task[r].id \in DOMAIN volunteer
                 /\ IncreaseUpdate(r))
                => (/\ task'[r].pc = "done" /\ task'[r].status = 200
                    /\ volunteer' = [volunteer EXCEPT ![task[r].id].volunteersNeeded = @ + 1])
             /\ (/\ task'[r].route \in {"INCREASE", "DECREASE"}
                 /\ task'[r].pc = "done" /\ task'[r].status = 200
                 /\ task'[r] # task[r])
                => (task[r].pc = "update" /\ (DecreaseUpdate(r) \/ IncreaseUpdate(r)))
       /\ (\E i \in DOMAIN volunteer \cap DOMAIN volunteer' :
               volunteer'[i].volunteersNeeded # volunteer[i].volunteersNeeded)
          => \E r \in Reqs :
                /\ task[r].pc = "update"
                /\ task[r].route \in {"INCREASE", "DECREASE", "PUT"}
                /\ task'[r].pc = "done"]_vars

\* a decrease was answered with success while an increase of the same stored
\* post stands between its findOne and its updateOne
C28_Witness ==
    \E r, q \in Reqs :
        /\ task[r].pc = "done" /\ task[r].route = "DECREASE" /\ task[r].status = 200
        /\ task[q].pc = "update" /\ task[q].route = "INCREASE"
        /\ task[q].id = task[r].id
        /\ task[r].id \in DOMAIN volunteer

\* C29: no step changes the organizerEmail or the createdAt of a post that
\* stays stored, and the updateOne of a PUT, an increase or a decrease keeps
\* the set of stored _ids and leaves every post other than the addressed one
\* exactly as it was.
C29_UpdatesKeepIdentity ==
    [][/\ \A i \in DOMAIN volunteer \cap DOMAIN volunteer' :
             /\ volunteer'[i].organizerEmail = volunteer[i].organizerEmail
             /\ volunteer'[i].createdAt = volunteer[i].createdAt
       /\ \A r \in Reqs :
             (/\ task[r].pc = "update"
              /\ task'[r].pc = "done"
              /\ task'[r].status = 200
              /\ (PutUpdate(r) \/ DecreaseUpdate(r) \/ IncreaseUpdate(r)))
             => (/\ DOMAIN volunteer' = DOMAIN volunteer
                 /\ \A i \in DOMAIN volunteer :
                       i # task[r].id => volunteer'[i] = volunteer[i])]_vars

\* a PUT has rewritten the addressed post while a second post is stored
C29_Witness ==
    \E r \in Reqs :
        /\ task[r].pc = "done" /\ task[r].route = "PUT" /\ task[r].status = 200
        /\ task[r].id \in DOMAIN volunteer
        /\ volunteer[task[r].id].title = "t2"
        /\ volunteer[task[r].id].organizerEmail \in Emails
        /\ OtherId \in DOMAIN volunteer
        /\ OtherId # task[r].id
====
